---------------------------- MODULE Spec2Model ----------------------------
(***************************************************************************)
(* Model of the Arweave network analyzer core:                             *)
(*   - NodeCrawler (bounded-concurrency BFS over /info and /peers),        *)
(*   - PeerGraph   (adjacency construction and structural metrics).        *)
(*                                                                         *)
(* Strings of the program are modelled as sequences of one-character       *)
(* strings, so that split, parseInt and the regular expressions of         *)
(* normalizeAddress are computed and not assumed.                          *)
(***************************************************************************)
EXTENDS Integers, Sequences, FiniteSets, TLC

(***************************************************************************)
(* Bounds of the model.                                                    *)
(***************************************************************************)
MaxBudget == 2
MaxWorkers == 2
MaxRetries == 1
MaxPeers == 2
MaxSeeds == 2
MaxGraphEdges == 3
MaxE2EBudget == 4
MaxE2EWorkers == 3
MaxFanSeeds == 5
MaxFanPeers == 4
MaxFanBudget == 2
MaxCycle == 5
MaxQueryEdges == 2
MaxCalls == 2
MaxOctets == 4

DEFAULT_PORT == 1984

\* The base of the backoff delay, in milliseconds.
BackoffBase == 500

(***************************************************************************)
(* Generic sequence helpers.                                               *)
(***************************************************************************)
Range(s) == {s[i] : i \in 1..Len(s)}

Contains(s, x) == \E i \in 1..Len(s) : s[i] = x

Drop(s, n) == SubSeq(s, n + 1, Len(s))

StartsWith(s, p) == Len(s) >= Len(p) /\ SubSeq(s, 1, Len(p)) = p

NoDup(s) == \A i, j \in 1..Len(s) : s[i] = s[j] => i = j

SeqsUpTo(S, n) == UNION {[1..k -> S] : k \in 0..n}

(***************************************************************************)
(* JavaScript string primitives.                                           *)
(***************************************************************************)
NaN == <<>>

isNaN(v) == v = NaN

DecDigits == <<"0", "1", "2", "3", "4", "5", "6", "7", "8", "9">>

HexLower == <<"a", "b", "c", "d", "e", "f">>

HexUpper == <<"A", "B", "C", "D", "E", "F">>

IndexOf(s, x) == IF Contains(s, x) THEN CHOOSE i \in 1..Len(s) : s[i] = x ELSE 0

\* Value of character c as a digit in the given radix, or -1.
DigitVal(c, radix) ==
    IF Contains(DecDigits, c) THEN IndexOf(DecDigits, c) - 1
    ELSE IF radix = 16 /\ Contains(HexLower, c) THEN IndexOf(HexLower, c) + 9
    ELSE IF radix = 16 /\ Contains(HexUpper, c) THEN IndexOf(HexUpper, c) + 9
    ELSE -1

RECURSIVE SkipSpaces(_)
SkipSpaces(s) == IF s # <<>> /\ Head(s) = " " THEN SkipSpaces(Tail(s)) ELSE s

\* Longest prefix of digits of s, accumulated into acc; <<value, digits read>>.
RECURSIVE ReadDigits(_, _, _, _)
ReadDigits(s, radix, acc, n) ==
    IF s # <<>> /\ DigitVal(Head(s), radix) >= 0
    THEN ReadDigits(Tail(s), radix, acc * radix + DigitVal(Head(s), radix), n + 1)
    ELSE <<acc, n>>

\* parseInt(string) with no radix argument: leading blanks, an optional sign,
\* an optional 0x prefix, then the longest run of digits; NaN when there is none.
parseInt(str) ==
    LET s0 == SkipSpaces(str)
        neg == s0 # <<>> /\ Head(s0) = "-"
        s1 == IF s0 # <<>> /\ Head(s0) \in {"-", "+"} THEN Tail(s0) ELSE s0
        hex == Len(s1) >= 2 /\ s1[1] = "0" /\ s1[2] \in {"x", "X"}
        s2 == IF hex THEN Drop(s1, 2) ELSE s1
        r == ReadDigits(s2, IF hex THEN 16 ELSE 10, 0, 0)
    IN  IF r[2] = 0 THEN NaN
        ELSE <<IF neg THEN 0 - r[1] ELSE r[1]>>

\* String(n) for an integer n >= 0.
RECURSIVE toString(_)
toString(n) ==
    IF n < 10 THEN <<DecDigits[n + 1]>>
    ELSE toString(n \div 10) \o <<DecDigits[(n % 10) + 1]>>

\* str.split(sep) for a one-character separator.
RECURSIVE SplitFrom(_, _, _)
SplitFrom(s, sep, cur) ==
    IF s = <<>> THEN <<cur>>
    ELSE IF Head(s) = sep THEN <<cur>> \o SplitFrom(Tail(s), sep, <<>>)
    ELSE SplitFrom(Tail(s), sep, Append(cur, Head(s)))

split(s, sep) == SplitFrom(s, sep, <<>>)

IsDigits(s) == \A i \in 1..Len(s) : Contains(DecDigits, s[i])

(***************************************************************************)
(* NodeCrawler.isValidIPv4 and NodeCrawler.normalizeAddress.               *)
(***************************************************************************)
null == <<"null">>

\* Mutant of isValidIPv4: the parts are not tested against 0 and 255.
isValidIPv4AnyNumber(ip) ==
    LET parts == split(ip, ".")
    IN  /\ Len(parts) = 4
        /\ \A i \in 1..Len(parts) : ~isNaN(parseInt(parts[i]))

isValidIPv4(ip) ==
    LET parts == split(ip, ".")
    IN  /\ Len(parts) = 4
        /\ \A i \in 1..Len(parts) :
              LET num == parseInt(parts[i])
              IN  ~isNaN(num) /\ num[1] >= 0 /\ num[1] <= 255

HttpPrefix == <<"h", "t", "t", "p", ":", "/", "/">>

HttpsPrefix == <<"h", "t", "t", "p", "s", ":", "/", "/">>

\* peer.replace(/^https?:\/\//, '')
StripProtocol(peer) ==
    IF StartsWith(peer, HttpsPrefix) THEN Drop(peer, Len(HttpsPrefix))
    ELSE IF StartsWith(peer, HttpPrefix) THEN Drop(peer, Len(HttpPrefix))
    ELSE peer

\* Mutant of MatchIPv6: the first group takes the brackets with it.
MatchIPv6WithBrackets(peer) ==
    IF peer = <<>> \/ Head(peer) # "[" \/ ~Contains(peer, "]") THEN null
    ELSE LET close == IndexOf(peer, "]")
             ip == SubSeq(peer, 1, close)
             rest == Drop(peer, close)
             rest2 == IF rest # <<>> /\ Head(rest) = ":" THEN Tail(rest) ELSE rest
         IN  IF Len(ip) > 2 /\ IsDigits(rest2) THEN <<ip, rest2>> ELSE null

\* peer.match(/^\[([^\]]+)\]:?(\d+)?$/): <<ip, port>> of the match (port is
\* <<>> when the group did not take part), or null.
MatchIPv6(peer) ==
    IF peer = <<>> \/ Head(peer) # "[" \/ ~Contains(peer, "]") THEN null
    ELSE LET close == IndexOf(peer, "]")
             ip == SubSeq(peer, 2, close - 1)
             rest == Drop(peer, close)
             rest2 == IF rest # <<>> /\ Head(rest) = ":" THEN Tail(rest) ELSE rest
         IN  IF ip # <<>> /\ IsDigits(rest2) THEN <<ip, rest2>> ELSE null

normalizeAddress(peer0) ==
    IF peer0 = <<>> THEN null
    ELSE LET peer == StripProtocol(peer0)
         IN  IF Contains(peer, "[")
             THEN LET match == MatchIPv6(peer)
                  IN  IF match # null
                      THEN LET port == IF match[2] # <<>> THEN match[2]
                                       ELSE toString(DEFAULT_PORT)
                           IN  <<"[">> \o match[1] \o <<"]">> \o <<":">> \o port
                      ELSE null
             ELSE LET parts == split(peer, ":")
                  IN  IF Len(parts) = 1
                      THEN IF isValidIPv4(parts[1])
                           THEN parts[1] \o <<":">> \o toString(DEFAULT_PORT)
                           ELSE null
                      ELSE IF Len(parts) = 2
                      THEN IF isValidIPv4(parts[1]) /\ ~isNaN(parseInt(parts[2]))
                           THEN parts[1] \o <<":">> \o parts[2]
                           ELSE null
                      ELSE null


(***************************************************************************)
(* Address universe of the model.                                          *)
(***************************************************************************)
\* "1.1.1.1:1984", and the same node reported without its port.
AddrA == <<"1", ".", "1", ".", "1", ".", "1", ":", "1", "9", "8", "4">>

RawA == <<"1", ".", "1", ".", "1", ".", "1">>

\* "2.2.2.2:2", and the same node reported as "http://2.2.2.2:2".
AddrB == <<"2", ".", "2", ".", "2", ".", "2", ":", "2">>

RawB == HttpPrefix \o AddrB

\* "3.3.3.3:3"
AddrC == <<"3", ".", "3", ".", "3", ".", "3", ":", "3">>

\* "4.4.4.4:-1": accepted by normalizeAddress, outside the port range.
AddrP == <<"4", ".", "4", ".", "4", ".", "4", ":", "-", "1">>

\* "x": not an address.
Junk == <<"x">>

RawPeers == {RawA, RawB, AddrP, Junk}

PeerLists == SeqsUpTo(RawPeers, MaxPeers)

SeedLists == SeqsUpTo(RawPeers, MaxSeeds) \ {<<>>}

\* Long lists: the seed A listed up to MaxFanSeeds times, and peer lists of
\* up to MaxFanPeers entries that name B or a non-address.
FanSeedLists == SeqsUpTo({RawA}, MaxFanSeeds) \ {<<>>}

FanPeerLists == SeqsUpTo({RawB, Junk}, MaxFanPeers)

Configs ==
    [seedNodes : SeedLists, maxNodes : 1..MaxBudget,
     concurrency : 1..MaxWorkers, retries : 0..MaxRetries]

(***************************************************************************)
(* State.                                                                  *)
(***************************************************************************)
VARIABLES
    config,           \* CrawlerConfig
    world,            \* "any": every response is possible; "e2e": the fixed scenario;
                      \* "fanout": long seed and peer lists
    visited,          \* NodeCrawler.visited
    queue,            \* NodeCrawler.queue
    nodes,            \* NodeCrawler.nodes, in insertion order
    edges,            \* NodeCrawler.edges
    responsiveCount,
    failedCount,
    worker,           \* per worker: position, and processNode's address and attempt
    crawlPc,          \* "idle", "running", "returned", or "failed" (crawl() rejected)
    stats,            \* CrawlResult.stats once crawl() has returned
    handed,           \* history: how many times each address was handed to processNode
    failedAll,        \* history: the addresses whose last /info attempt failed
    peersFailed,      \* history: per address, the /peers requests that failed
    graphPc,          \* "none", "queryable": whether the PeerGraph has been constructed
    adjacencyList,    \* PeerGraph.adjacencyList: address -> set, in insertion order
    reverseAdjacencyList,
    inputEdges,       \* history: the edge list as it was handed to the constructor
    result,           \* the last call on the graph and the value it returned
    callCount,        \* history: the number of calls made on the graph
    peer              \* the string handed to normalizeAddress

\* PeerGraph.nodeData and PeerGraph.edges are the crawl result's own Map and
\* array (the constructor stores the references): the variables nodes and edges.
graphVars == <<graphPc, adjacencyList, reverseAdjacencyList, inputEdges>>

callVars == <<result, callCount, peer>>

crawlerVars ==
    <<config, world, visited, queue, nodes, edges, responsiveCount, failedCount,
      worker, crawlPc, stats, handed, failedAll, peersFailed>>

Workers == 1..config.concurrency

\* The crawler's mutable fields as one record, threaded through the
\* synchronous run of a handler.
Cur ==
    [visited |-> visited, queue |-> queue, nodes |-> nodes, edges |-> edges,
     responsiveCount |-> responsiveCount, failedCount |-> failedCount,
     worker |-> worker, handed |-> handed, failedAll |-> failedAll,
     peersFailed |-> peersFailed]

Becomes(st) ==
    /\ visited' = st.visited
    /\ queue' = st.queue
    /\ nodes' = st.nodes
    /\ edges' = st.edges
    /\ responsiveCount' = st.responsiveCount
    /\ failedCount' = st.failedCount
    /\ worker' = st.worker
    /\ handed' = st.handed
    /\ failedAll' = st.failedAll
    /\ peersFailed' = st.peersFailed

(***************************************************************************)
(* Map<string, ArweaveNode> in insertion order.                            *)
(***************************************************************************)
MapKeys(m) == [i \in 1..Len(m) |-> m[i].address]

MapHas(m, k) == \E i \in 1..Len(m) : m[i].address = k

MapIndex(m, k) == CHOOSE i \in 1..Len(m) : m[i].address = k

MapGet(m, k) == m[MapIndex(m, k)]

MapSet(m, k, v) ==
    IF MapHas(m, k) THEN [m EXCEPT ![MapIndex(m, k)] = v] ELSE Append(m, v)

(***************************************************************************)
(* NodeCrawler.crawl: seeding and the worker loop.                         *)
(***************************************************************************)
\* for (const seed of this.config.seedNodes) ...
RECURSIVE SeedQueue(_, _, _)
SeedQueue(seeds, vis, q) ==
    IF seeds = <<>> THEN q
    ELSE LET normalized == normalizeAddress(Head(seeds))
         IN  SeedQueue(Tail(seeds), vis,
                       IF normalized # null /\ normalized \notin vis
                       THEN Append(q, normalized) ELSE q)

\* Mutant of PopUnvisited: the candidate is returned without being marked.
RECURSIVE PopUnmarked(_, _)
PopUnmarked(q, vis) ==
    IF q = <<>> THEN <<null, q, vis>>
    ELSE IF Head(q) \notin vis THEN <<Head(q), Tail(q), vis>>
    ELSE PopUnmarked(Tail(q), vis)

\* The inner while loop of startWorker: shift candidates until one is
\* unvisited, and mark it. <<address or null, queue, visited>>.
RECURSIVE PopUnvisited(_, _)
PopUnvisited(q, vis) ==
    IF q = <<>> THEN <<null, q, vis>>
    ELSE IF Head(q) \notin vis THEN <<Head(q), Tail(q), vis \cup {Head(q)}>>
    ELSE PopUnvisited(Tail(q), vis)

\* One more call of processNode(address) in the history.
Count(h, address) ==
    IF address \in DOMAIN h THEN [h EXCEPT ![address] = @ + 1]
    ELSE h @@ (address :> 1)

\* processNode up to its first await: the port check and the first /info request.
processNodeBegin(st, w, address) ==
    LET parts == split(address, ":")
        ip == parts[1]
        portStr == IF Len(parts) >= 2 THEN parts[2] ELSE <<>>
        parsed == parseInt(portStr)
        port == IF isNaN(parsed) \/ parsed[1] = 0 THEN DEFAULT_PORT ELSE parsed[1]
        st1 == [st EXCEPT !.handed = Count(@, address)]
    IN  IF port < 1 \/ port > 65535
        THEN [st1 EXCEPT !.worker[w] = [pc |-> "sleeping", address |-> null,
                                        ip |-> null, port |-> 0, attempt |-> 0,
                                        delay |-> 0]]
        ELSE [st1 EXCEPT !.worker[w] = [pc |-> "fetchInfo", address |-> address,
                                        ip |-> ip, port |-> port, attempt |-> 0,
                                        delay |-> 0]]

Exited == [pc |-> "exited", address |-> null, ip |-> null, port |-> 0, attempt |-> 0, delay |-> 0]

NotStarted == [pc |-> "idle", address |-> null, ip |-> null, port |-> 0, attempt |-> 0, delay |-> 0]

\* Mutant of workerLoop: the registry size is not tested.
workerLoopNoBudget(st, w) ==
    LET pop == PopUnvisited(st.queue, st.visited)
        st1 == [st EXCEPT !.queue = pop[2], !.visited = pop[3]]
    IN  IF pop[1] # null THEN processNodeBegin(st1, w, pop[1])
        ELSE [st1 EXCEPT !.worker[w] = Exited]

\* One pass of startWorker's outer loop, from the budget test to the await.
workerLoop(st, w) ==
    IF Len(st.nodes) < config.maxNodes
    THEN LET pop == PopUnvisited(st.queue, st.visited)
             st1 == [st EXCEPT !.queue = pop[2], !.visited = pop[3]]
         IN  IF pop[1] # null THEN processNodeBegin(st1, w, pop[1])
             ELSE [st1 EXCEPT !.worker[w] = Exited]
    ELSE [st EXCEPT !.worker[w] = Exited]

\* for (let i = 0; i < concurrency; i++) workers.push(startWorker()): each
\* worker runs to its first await before the next one is started.
RECURSIVE startWorkers(_, _)
startWorkers(st, i) ==
    IF i > config.concurrency THEN st
    ELSE startWorkers(workerLoop(st, i), i + 1)


(***************************************************************************)
(* The network: what /info and /peers answer.                              *)
(***************************************************************************)
\* The scenario of the end-to-end test: A reports [B, C], B reports [A, C],
\* C never answers.
ScenarioUp(address) == address \in {AddrA, AddrB}

ScenarioPeers(address) ==
    IF address = AddrA THEN <<RawB, AddrC>>
    ELSE IF address = AddrB THEN <<RawA, AddrC>>
    ELSE <<>>

\* What a request can meet: no answer within the timeout, a connection
\* error, a status other than 200, a 200 with an empty body, a body that is
\* not JSON, a body that is JSON (for /info: an object, or a falsy value such
\* as null; for /peers: an array, or something else).
FailureKinds == {"timeout", "error", "status", "empty", "unparsable"}

InfoResponses(address) ==
    IF world = "e2e" THEN {IF ScenarioUp(address) THEN "json" ELSE "timeout"}
    ELSE FailureKinds \cup {"json", "jsonFalsy"}

PeerResponses(address) ==
    IF world = "e2e" THEN {[kind |-> "array", body |-> ScenarioPeers(address)]}
    ELSE IF world = "fanout"
    THEN {[kind |-> "array", body |-> l] : l \in FanPeerLists}
    ELSE {[kind |-> k, body |-> <<>>] : k \in FailureKinds \cup {"notArray"}}
         \cup {[kind |-> "array", body |-> l] : l \in PeerLists}

\* How a promise settles.
Resolved(v) == [settled |-> "resolved", value |-> v]

Rejected == [settled |-> "rejected", value |-> null]

\* The object JSON.parse returns for an /info body.
Info == <<"info">>

\* fetchNodeInfo: every path of the promise calls resolve, with the parsed
\* body or with null.
fetchNodeInfo(response) ==
    IF response = "json" THEN Resolved(Info) ELSE Resolved(null)

\* Mutant of fetchPeers: JSON.parse is not guarded, and its exception
\* rejects the promise.
fetchPeersUnguarded(response) ==
    IF response.kind = "array" THEN Resolved(response.body)
    ELSE IF response.kind = "unparsable" THEN Rejected
    ELSE Resolved(<<>>)

\* fetchPeers: every path of the promise calls resolve, with the parsed
\* array or with [].
fetchPeers(response) ==
    IF response.kind = "array" THEN Resolved(response.body) ELSE Resolved(<<>>)

(***************************************************************************)
(* NodeCrawler.processNode after its awaits.                               *)
(***************************************************************************)
NewNode(w, responsive, outbound) ==
    [address |-> w.address, ip |-> w.ip, port |-> w.port,
     isResponsive |-> responsive, inboundPeers |-> <<>>, outboundPeers |-> outbound]

Sleeping == [pc |-> "sleeping", address |-> null, ip |-> null, port |-> 0, attempt |-> 0, delay |-> 0]

\* Mutant of addPeer: no edge is recorded toward a peer already visited.
addPeerUnvisitedOnly(st, address, peerAddr) ==
    LET normalizedPeer == normalizeAddress(peerAddr)
    IN  IF normalizedPeer = null \/ normalizedPeer \in st.visited THEN st
        ELSE LET st1 == [st EXCEPT !.edges =
                           Append(@, [source |-> address, target |-> normalizedPeer,
                                      bidirectional |-> FALSE])]
             IN  IF /\ Len(st1.nodes) < config.maxNodes
                    /\ Len(st1.queue) < config.maxNodes * 3
                 THEN [st1 EXCEPT !.queue = Append(@, normalizedPeer)]
                 ELSE st1

\* Mutant of addPeer: the edge is recorded only for a peer that is enqueued.
addPeerWhenQueued(st, address, peerAddr) ==
    LET normalizedPeer == normalizeAddress(peerAddr)
    IN  IF normalizedPeer = null THEN st
        ELSE IF /\ normalizedPeer \notin st.visited
                /\ Len(st.nodes) < config.maxNodes
                /\ Len(st.queue) < config.maxNodes * 3
        THEN [st EXCEPT !.edges = Append(@, [source |-> address, target |-> normalizedPeer,
                                              bidirectional |-> FALSE]),
                        !.queue = Append(@, normalizedPeer)]
        ELSE st

\* The body of "for (const peerAddr of peers)" for one peer.
addPeer(st, address, peerAddr) ==
    LET normalizedPeer == normalizeAddress(peerAddr)
    IN  IF normalizedPeer = null THEN st
        ELSE LET st1 == [st EXCEPT !.edges =
                           Append(@, [source |-> address, target |-> normalizedPeer,
                                      bidirectional |-> FALSE])]
                 st2 == IF MapHas(st1.nodes, normalizedPeer)
                        THEN [st1 EXCEPT !.nodes[MapIndex(st1.nodes, normalizedPeer)]
                                            .inboundPeers = Append(@, address)]
                        ELSE st1
                 MAX_QUEUE_SIZE == config.maxNodes * 3
             IN  IF /\ normalizedPeer \notin st2.visited
                    /\ Len(st2.nodes) < config.maxNodes
                    /\ Len(st2.queue) < MAX_QUEUE_SIZE
                 THEN [st2 EXCEPT !.queue = Append(@, normalizedPeer)]
                 ELSE st2

RECURSIVE addPeers(_, _, _)
addPeers(st, address, peers) ==
    IF peers = <<>> THEN st
    ELSE addPeers(addPeer(st, address, Head(peers)), address, Tail(peers))

\* Mutant of infoResponse: the peers are requested whether or not /info was
\* answered.
infoResponseUnchecked(st, w, info) ==
    LET me == st.worker[w]
    IN  IF info \/ me.attempt >= config.retries
        THEN [st EXCEPT !.responsiveCount = @ + 1, !.worker[w].pc = "fetchPeers",
                        !.failedAll = IF info THEN @ ELSE @ \cup {me.address}]
        ELSE [st EXCEPT !.worker[w].pc = "backoff",
                        !.worker[w].delay = BackoffBase * (me.attempt + 1)]

\* Mutant of infoResponse: the last failure is not counted.
infoResponseUncounted(st, w, info) ==
    LET me == st.worker[w]
    IN  IF info
        THEN [st EXCEPT !.responsiveCount = @ + 1, !.worker[w].pc = "fetchPeers"]
        ELSE IF me.attempt < config.retries
        THEN [st EXCEPT !.worker[w].pc = "backoff",
                        !.worker[w].delay = BackoffBase * (me.attempt + 1)]
        ELSE [st EXCEPT !.failedAll = @ \cup {me.address},
                        !.nodes = MapSet(@, me.address, NewNode(me, FALSE, <<>>)),
                        !.worker[w] = Sleeping]

\* fetchNodeInfo of worker w has resolved (info: whether to an object).
infoResponse(st, w, info) ==
    LET me == st.worker[w]
    IN  IF info
        THEN [st EXCEPT !.responsiveCount = @ + 1, !.worker[w].pc = "fetchPeers"]
        ELSE IF me.attempt < config.retries
        THEN [st EXCEPT !.worker[w].pc = "backoff",
                        !.worker[w].delay = BackoffBase * (me.attempt + 1)]
        ELSE [st EXCEPT !.failedCount = @ + 1,
                        !.failedAll = @ \cup {me.address},
                        !.nodes = MapSet(@, me.address, NewNode(me, FALSE, <<>>)),
                        !.worker[w] = Sleeping]

\* A rejected promise awaited in processNode: processNode, and with it the
\* worker that awaits it, ends rejected.
RejectedWorker ==
    [pc |-> "rejected", address |-> null, ip |-> null, port |-> 0, attempt |-> 0, delay |-> 0]

processNodeRejected(st, w) == [st EXCEPT !.worker[w] = RejectedWorker]

\* Mutant of backoffElapsed: the attempt counter is not advanced.
backoffElapsedSameAttempt(st, w) ==
    [st EXCEPT !.worker[w].pc = "fetchInfo", !.worker[w].delay = 0]

\* The backoff delay has elapsed: the next attempt is sent.
backoffElapsed(st, w) ==
    [st EXCEPT !.worker[w].attempt = @ + 1, !.worker[w].pc = "fetchInfo",
               !.worker[w].delay = 0]

\* fetchPeers of worker w has resolved to peers.
peersResponse(st, w, peers) ==
    LET me == st.worker[w]
        st1 == IF Len(peers) > 0 THEN addPeers(st, me.address, peers) ELSE st
    IN  [st1 EXCEPT !.nodes = MapSet(@, me.address, NewNode(me, TRUE, peers)),
                    !.worker[w] = Sleeping]

\* Mutant of calculateStats: the visited addresses are counted as discovered.
calculateStatsVisited(st) ==
    [totalDiscovered |-> Cardinality(st.visited), totalResponsive |-> st.responsiveCount,
     totalFailed |-> st.failedCount, totalEdges |-> Len(st.edges)]

calculateStats(st) ==
    [totalDiscovered |-> Len(st.nodes), totalResponsive |-> st.responsiveCount,
     totalFailed |-> st.failedCount, totalEdges |-> Len(st.edges)]

NoStats ==
    [totalDiscovered |-> 0, totalResponsive |-> 0, totalFailed |-> 0, totalEdges |-> 0]

(***************************************************************************)
(* Actions of the crawler.                                                 *)
(***************************************************************************)
\* The workers run from the call of crawl() on, also after Promise.all has
\* rejected ("failed"): a rejection does not stop the other workers.
CrawlInProgress == crawlPc \in {"running", "failed"}

InitCrawler ==
    /\ visited = {}
    /\ queue = <<>>
    /\ nodes = <<>>
    /\ edges = <<>>
    /\ responsiveCount = 0
    /\ failedCount = 0
    /\ worker = [w \in Workers |-> NotStarted]
    /\ crawlPc = "idle"
    /\ stats = NoStats
    /\ handed = <<>>
    /\ failedAll = {}
    /\ peersFailed = <<>>

\* crawl() is called: the seeds are queued and every worker runs to its
\* first await.
Crawl ==
    /\ crawlPc = "idle"
    /\ crawlPc' = "running"
    /\ Becomes(startWorkers(
          [Cur EXCEPT !.queue = SeedQueue(config.seedNodes, visited, queue)], 1))
    /\ UNCHANGED <<config, world, stats, graphVars, callVars>>

InfoResponse(w) ==
    /\ CrawlInProgress
    /\ worker[w].pc = "fetchInfo"
    /\ \E response \in InfoResponses(worker[w].address) :
          LET info == fetchNodeInfo(response)
          IN  IF info.settled = "rejected"
              THEN Becomes(processNodeRejected(Cur, w)) /\ crawlPc' = "failed"
              ELSE Becomes(infoResponse(Cur, w, info.value # null)) /\ UNCHANGED crawlPc
    /\ UNCHANGED <<config, world, stats, graphVars, callVars>>

BackoffElapsed(w) ==
    /\ CrawlInProgress
    /\ worker[w].pc = "backoff"
    /\ Becomes(backoffElapsed(Cur, w))
    /\ UNCHANGED <<config, world, crawlPc, stats, graphVars, callVars>>

PeersResponse(w) ==
    /\ CrawlInProgress
    /\ worker[w].pc = "fetchPeers"
    /\ \E response \in PeerResponses(worker[w].address) :
          LET peers == fetchPeers(response)
          IN  IF peers.settled = "rejected"
              THEN Becomes(processNodeRejected(Cur, w)) /\ crawlPc' = "failed"
              ELSE /\ Becomes(peersResponse(
                          [Cur EXCEPT !.peersFailed =
                              IF response.kind = "array" THEN @
                              ELSE Count(@, worker[w].address)],
                          w, peers.value))
                   /\ UNCHANGED crawlPc
    /\ UNCHANGED <<config, world, stats, graphVars, callVars>>

\* "await this.processNode(address)" and the rate-limiting delay are over:
\* the worker is back at the head of its loop.
Resume(w) ==
    /\ CrawlInProgress
    /\ worker[w].pc = "sleeping"
    /\ Becomes(workerLoop(Cur, w))
    /\ UNCHANGED <<config, world, crawlPc, stats, graphVars, callVars>>

\* Mutant of CrawlReturn: crawl() returns as soon as one worker has exited.
CrawlReturnFirst ==
    /\ crawlPc = "running"
    /\ \E w \in Workers : worker[w].pc = "exited"
    /\ crawlPc' = "returned"
    /\ stats' = calculateStats(Cur)
    /\ UNCHANGED <<config, world, visited, queue, nodes, edges, responsiveCount,
                   failedCount, worker, handed, failedAll, peersFailed,
                   graphVars, callVars>>

\* Promise.all(workers) has resolved: crawl() returns its result.
CrawlReturn ==
    /\ crawlPc = "running"
    /\ \A w \in Workers : worker[w].pc = "exited"
    /\ crawlPc' = "returned"
    /\ stats' = calculateStats(Cur)
    /\ UNCHANGED <<config, world, visited, queue, nodes, edges, responsiveCount,
                   failedCount, worker, handed, failedAll, peersFailed,
                   graphVars, callVars>>


(***************************************************************************)
(* Rational numbers <<numerator, denominator>> in lowest terms, for the    *)
(* metrics the program computes in floating point.                         *)
(***************************************************************************)
Abs(x) == IF x < 0 THEN 0 - x ELSE x

RECURSIVE Gcd(_, _)
Gcd(a, b) == IF b = 0 THEN a ELSE Gcd(b, a % b)

Rat(n, d) ==
    LET g == Gcd(Abs(n), Abs(d))
        sgn == IF d < 0 THEN -1 ELSE 1
    IN  <<(sgn * n) \div g, (sgn * d) \div g>>

RInt(n) == <<n, 1>>

RAdd(x, y) == Rat(x[1] * y[2] + y[1] * x[2], x[2] * y[2])

RMul(x, y) == Rat(x[1] * y[1], x[2] * y[2])

RDiv(x, y) == Rat(x[1] * y[2], x[2] * y[1])

RLe(x, y) == x[1] * y[2] <= y[1] * x[2]

\* 0 / 0
RNaN == <<0, 0>>

RIsNaN(x) == x[2] = 0

(***************************************************************************)
(* PeerGraph: construction.                                                *)
(***************************************************************************)
\* Set.add on a set kept in insertion order.
SetAdd(set, x) == IF Contains(set, x) THEN set ELSE Append(set, x)

RECURSIVE SetAddAll(_, _)
SetAddAll(set, xs) ==
    IF xs = <<>> THEN set ELSE SetAddAll(SetAdd(set, Head(xs)), Tail(xs))

\* map.get(k) || new Set()
GetOrEmpty(m, k) == IF k \in DOMAIN m THEN m[k] ELSE <<>>

\* Mutant of addEdge: the reverse entry is kept only for registered targets.
addEdgeKnownTarget(g, source, target) ==
    LET fwd == IF source \in DOMAIN g.adjacencyList THEN g.adjacencyList
               ELSE g.adjacencyList @@ (source :> <<>>)
    IN  [g EXCEPT !.adjacencyList = [fwd EXCEPT ![source] = SetAdd(@, target)],
                  !.reverseAdjacencyList =
                      IF target \in DOMAIN @ THEN [@ EXCEPT ![target] = SetAdd(@, source)]
                      ELSE @]

addEdge(g, source, target) ==
    LET fwd == IF source \in DOMAIN g.adjacencyList THEN g.adjacencyList
               ELSE g.adjacencyList @@ (source :> <<>>)
        rev == IF target \in DOMAIN g.reverseAdjacencyList THEN g.reverseAdjacencyList
               ELSE g.reverseAdjacencyList @@ (target :> <<>>)
    IN  [g EXCEPT !.adjacencyList = [fwd EXCEPT ![source] = SetAdd(@, target)],
                  !.reverseAdjacencyList = [rev EXCEPT ![target] = SetAdd(@, source)]]

RECURSIVE addEdges(_, _)
addEdges(g, es) ==
    IF es = <<>> THEN g
    ELSE addEdges(addEdge(g, Head(es).source, Head(es).target), Tail(es))

\* Mutant of reverseExists: a flag that came set is never cleared.
reverseExistsOrFlagged(g, edge) ==
    edge.bidirectional
        \/ (edge.target \in DOMAIN g.adjacencyList
               /\ Contains(g.adjacencyList[edge.target], edge.source))

\* The flag markBidirectionalEdges gives one edge.
reverseExists(g, edge) ==
    edge.target \in DOMAIN g.adjacencyList
        /\ Contains(g.adjacencyList[edge.target], edge.source)

markBidirectionalEdges(g) ==
    [g EXCEPT !.edges =
        [i \in 1..Len(g.edges) |->
            [g.edges[i] EXCEPT !.bidirectional = reverseExists(g, g.edges[i])]]]

buildGraph(nodeData, es) ==
    LET keys == Range(MapKeys(nodeData))
        g0 == [adjacencyList |-> [a \in keys |-> <<>>],
               reverseAdjacencyList |-> [a \in keys |-> <<>>],
               edges |-> es]
    IN  markBidirectionalEdges(addEdges(g0, es))

(***************************************************************************)
(* PeerGraph: basic metrics.                                               *)
(***************************************************************************)
getOutDegree(node) == Len(GetOrEmpty(adjacencyList, node))

getInDegree(node) == Len(GetOrEmpty(reverseAdjacencyList, node))

getNeighbors(node) ==
    SetAddAll(SetAddAll(<<>>, GetOrEmpty(adjacencyList, node)),
              GetOrEmpty(reverseAdjacencyList, node))

\* Mutant of getDegree: the two directions are added up.
getDegreeSum(node) ==
    Len(GetOrEmpty(adjacencyList, node)) + Len(GetOrEmpty(reverseAdjacencyList, node))

getDegree(node) ==
    LET outbound == GetOrEmpty(adjacencyList, node)
        inbound == GetOrEmpty(reverseAdjacencyList, node)
        allPeers == SetAddAll(SetAddAll(<<>>, outbound), inbound)
    IN  Len(allPeers)

isBidirectional(source, target) ==
    LET hasForward == Contains(GetOrEmpty(adjacencyList, source), target)
        hasReverse == Contains(GetOrEmpty(adjacencyList, target), source)
    IN  hasForward /\ hasReverse

\* Mutant of calculateDensity: no test of n, so that 0 / 0 is returned for
\* an empty registry.
calculateDensityUnguarded ==
    LET n == Len(nodes)
        maxEdges == n * (n - 1)
    IN  IF maxEdges = 0 THEN RNaN ELSE Rat(Len(edges), maxEdges)

calculateDensity ==
    LET n == Len(nodes)
    IN  IF n < 2 THEN RInt(0)
        ELSE LET maxEdges == n * (n - 1)
             IN  Rat(Len(edges), maxEdges)

\* Whether one of two neighbors lists the other.
neighborsJoined(a, b) ==
    \/ Contains(GetOrEmpty(adjacencyList, a), b)
    \/ Contains(GetOrEmpty(adjacencyList, b), a)

\* Mutant of calculateClusteringCoefficient: the inner loop starts at 0, so
\* that every pair is counted in both orders.
calculateClusteringCoefficientOrdered(node) ==
    LET neighborArray == getNeighbors(node)
        k == Len(neighborArray)
    IN  IF k < 2 THEN RInt(0)
        ELSE LET edgesBetweenNeighbors ==
                     Cardinality({ij \in (1..k) \X (1..k) :
                                     /\ ij[1] # ij[2]
                                     /\ neighborsJoined(neighborArray[ij[1]],
                                                        neighborArray[ij[2]])})
                 possibleEdges == (k * (k - 1)) \div 2
             IN  Rat(edgesBetweenNeighbors, possibleEdges)

calculateClusteringCoefficient(node) ==
    LET neighborArray == getNeighbors(node)
        k == Len(neighborArray)
    IN  IF k < 2 THEN RInt(0)
        ELSE LET edgesBetweenNeighbors ==
                     Cardinality({ij \in (1..k) \X (1..k) :
                                     /\ ij[1] < ij[2]
                                     /\ neighborsJoined(neighborArray[ij[1]],
                                                        neighborArray[ij[2]])})
                 possibleEdges == (k * (k - 1)) \div 2
             IN  Rat(edgesBetweenNeighbors, possibleEdges)

\* Mutant of avgClustering: nodes of fewer than 2 neighbors are left out.
RECURSIVE avgClusteringDegreeTwo(_, _, _)
avgClusteringDegreeTwo(keys, sum, count) ==
    IF keys = <<>> THEN [sum |-> sum, count |-> count]
    ELSE IF Len(getNeighbors(Head(keys))) >= 2
         THEN avgClusteringDegreeTwo(Tail(keys),
                  RAdd(sum, calculateClusteringCoefficient(Head(keys))), count + 1)
         ELSE avgClusteringDegreeTwo(Tail(keys), sum, count)

\* "for (const node of this.nodeData.keys())" of calculateAvgClusteringCoefficient.
RECURSIVE avgClustering(_, _, _)
avgClustering(keys, sum, count) ==
    IF keys = <<>> THEN [sum |-> sum, count |-> count]
    ELSE LET cc == calculateClusteringCoefficient(Head(keys))
         IN  IF ~RIsNaN(cc)
             THEN avgClustering(Tail(keys), RAdd(sum, cc), count + 1)
             ELSE avgClustering(Tail(keys), sum, count)

calculateAvgClusteringCoefficient ==
    LET r == avgClustering(MapKeys(nodes), RInt(0), 0)
    IN  IF r.count > 0 THEN RDiv(r.sum, RInt(r.count)) ELSE RInt(0)

\* The number of flagged edges; the program returns this count / 2.
FlaggedEdges == Cardinality({i \in 1..Len(edges) : edges[i].bidirectional})

countBidirectionalEdges == Rat(FlaggedEdges, 2)


(***************************************************************************)
(* PeerGraph.findConnectedComponents.                                      *)
(***************************************************************************)
\* The BFS of one component: <<visited, component>>.
RECURSIVE componentBfs(_, _, _)
componentBfs(q, vis, component) ==
    IF q = <<>> THEN <<vis, component>>
    ELSE LET current == Head(q)
         IN  IF current \in vis THEN componentBfs(Tail(q), vis, component)
             ELSE LET vis1 == vis \cup {current}
                      unvisited == SelectSeq(getNeighbors(current),
                                             LAMBDA x : x \notin vis1)
                  IN  componentBfs(Tail(q) \o unvisited, vis1,
                                   Append(component, current))

RECURSIVE componentsFrom(_, _, _)
componentsFrom(keys, vis, components) ==
    IF keys = <<>> THEN components
    ELSE IF Head(keys) \in vis THEN componentsFrom(Tail(keys), vis, components)
    ELSE LET r == componentBfs(<<Head(keys)>>, vis, <<>>)
         IN  componentsFrom(Tail(keys), r[1], Append(components, r[2]))

\* Array.prototype.sort((a, b) => b.length - a.length): stable, longest first.
RECURSIVE InsertByLength(_, _)
InsertByLength(sorted, c) ==
    IF sorted = <<>> THEN <<c>>
    ELSE IF Len(Head(sorted)) >= Len(c)
         THEN <<Head(sorted)>> \o InsertByLength(Tail(sorted), c)
         ELSE <<c>> \o sorted

RECURSIVE SortByLength(_, _)
SortByLength(components, sorted) ==
    IF components = <<>> THEN sorted
    ELSE SortByLength(Tail(components), InsertByLength(sorted, Head(components)))

\* Mutant of findConnectedComponents: the components are returned in the
\* order they were found.
findConnectedComponentsUnsorted == componentsFrom(MapKeys(nodes), {}, <<>>)

findConnectedComponents ==
    SortByLength(componentsFrom(MapKeys(nodes), {}, <<>>), <<>>)

(***************************************************************************)
(* PeerGraph.calculateBetweennessCentrality (Brandes).                     *)
(***************************************************************************)
\* Mutant of bfsVisit: a path is counted only on the first visit of w.
bfsVisitFirstOnly(st, v, w) ==
    IF w \notin DOMAIN st.distance THEN st
    ELSE IF st.distance[w] = -1
         THEN [st EXCEPT !.queue = Append(@, w),
                         !.distance[w] = st.distance[v] + 1,
                         !.sigma[w] = @ + st.sigma[v],
                         !.predecessors[w] = Append(@, v)]
         ELSE st

\* The body of "for (const w of neighbors)". A neighbor that is no key of
\* the registry has no distance: both comparisons are false for it.
bfsVisit(st, v, w) ==
    IF w \notin DOMAIN st.distance THEN st
    ELSE LET st1 == IF st.distance[w] = -1
                    THEN [st EXCEPT !.queue = Append(@, w),
                                    !.distance[w] = st.distance[v] + 1]
                    ELSE st
         IN  IF st1.distance[w] = st1.distance[v] + 1
             THEN [st1 EXCEPT !.sigma[w] = @ + st1.sigma[v],
                              !.predecessors[w] = Append(@, v)]
             ELSE st1

RECURSIVE bfsNeighbors(_, _, _)
bfsNeighbors(st, v, ws) ==
    IF ws = <<>> THEN st
    ELSE bfsNeighbors(bfsVisit(st, v, Head(ws)), v, Tail(ws))

\* Mutant of bfs: the search follows outbound peers only.
RECURSIVE bfsOutbound(_)
bfsOutbound(st) ==
    IF st.queue = <<>> THEN st
    ELSE LET v == Head(st.queue)
             st1 == [st EXCEPT !.queue = Tail(@), !.stack = Append(@, v)]
         IN  bfsOutbound(bfsNeighbors(st1, v, GetOrEmpty(adjacencyList, v)))

RECURSIVE bfs(_)
bfs(st) ==
    IF st.queue = <<>> THEN st
    ELSE LET v == Head(st.queue)
             st1 == [st EXCEPT !.queue = Tail(@), !.stack = Append(@, v)]
         IN  bfs(bfsNeighbors(st1, v, getNeighbors(v)))

\* "for (const v of predecessors.get(w))": delta[v] += sigma[v]/sigma[w] * (1 + delta[w])
RECURSIVE addContributions(_, _, _, _)
addContributions(delta, sigma, w, preds) ==
    IF preds = <<>> THEN delta
    ELSE LET v == Head(preds)
             contribution == RMul(Rat(sigma[v], sigma[w]), RAdd(RInt(1), delta[w]))
         IN  addContributions([delta EXCEPT ![v] = RAdd(@, contribution)],
                              sigma, w, Tail(preds))

\* "while (stack.length > 0)": the accumulation for one source.
RECURSIVE accumulate(_, _, _, _, _)
accumulate(st, stack, delta, betweenness, source) ==
    IF stack = <<>> THEN betweenness
    ELSE LET w == stack[Len(stack)]
             delta1 == addContributions(delta, st.sigma, w, st.predecessors[w])
         IN  accumulate(st, SubSeq(stack, 1, Len(stack) - 1), delta1,
                        IF w # source
                        THEN [betweenness EXCEPT ![w] = RAdd(@, delta1[w])]
                        ELSE betweenness,
                        source)

\* The body of "for (const source of nodes)".
fromSource(betweenness, keys, source) ==
    LET st0 == [queue |-> <<source>>, stack |-> <<>>,
                predecessors |-> [a \in keys |-> <<>>],
                sigma |-> [a \in keys |-> IF a = source THEN 1 ELSE 0],
                distance |-> [a \in keys |-> IF a = source THEN 0 ELSE -1]]
        st == bfs(st0)
    IN  accumulate(st, st.stack, [a \in keys |-> RInt(0)], betweenness, source)

RECURSIVE fromSources(_, _, _)
fromSources(betweenness, keys, sources) ==
    IF sources = <<>> THEN betweenness
    ELSE fromSources(fromSource(betweenness, keys, Head(sources)), keys, Tail(sources))

normFactor(n) == IF n > 2 THEN Rat(2, (n - 1) * (n - 2)) ELSE RInt(1)

calculateBetweennessCentrality ==
    LET keys == Range(MapKeys(nodes))
        raw == fromSources([a \in keys |-> RInt(0)], keys, MapKeys(nodes))
        n == Len(nodes)
    IN  [a \in keys |-> RMul(raw[a], normFactor(n))]


(***************************************************************************)
(* The export, and the calls a user of a PeerGraph can make.               *)
(***************************************************************************)
\* The characters of the model in the order of their UTF-16 code units.
CodeUnits ==
    <<" ", "+", "-", ".", "/", "0", "1", "2", "3", "4", "5", "6", "7", "8", "9",
      ":", "A", "B", "C", "D", "E", "F", "[", "]", "a", "b", "c", "d", "e", "f",
      "h", "p", "s", "t", "x", "|">>

\* a < b as Array.prototype.sort compares two strings.
RECURSIVE StrLess(_, _)
StrLess(a, b) ==
    IF b = <<>> THEN FALSE
    ELSE IF a = <<>> THEN TRUE
    ELSE IF Head(a) = Head(b) THEN StrLess(Tail(a), Tail(b))
    ELSE IndexOf(CodeUnits, Head(a)) < IndexOf(CodeUnits, Head(b))

\* [edge.source, edge.target].sort().join('|')
edgeKey(edge) ==
    IF StrLess(edge.target, edge.source)
    THEN edge.target \o <<"|">> \o edge.source
    ELSE edge.source \o <<"|">> \o edge.target

cytoscapeNode(node) ==
    [id |-> node.address, label |-> node.ip,
     degree |-> getDegree(node.address),
     inDegree |-> getInDegree(node.address),
     outDegree |-> getOutDegree(node.address),
     responsive |-> node.isResponsive]

\* "for (const edge of this.edges)" of toCytoscapeFormat.
RECURSIVE cytoscapeEdges(_, _, _)
cytoscapeEdges(es, seenEdges, out) ==
    IF es = <<>> THEN out
    ELSE LET edge == Head(es)
         IN  IF edgeKey(edge) \in seenEdges
             THEN cytoscapeEdges(Tail(es), seenEdges, out)
             ELSE cytoscapeEdges(Tail(es), seenEdges \cup {edgeKey(edge)},
                      Append(out, [id |-> edge.source \o <<"-">> \o edge.target,
                                   source |-> edge.source, target |-> edge.target,
                                   bidirectional |-> edge.bidirectional]))

\* The version and the height of a node are not part of the model's nodes.
toCytoscapeFormat ==
    [nodes |-> [i \in 1..Len(nodes) |-> cytoscapeNode(nodes[i])],
     edges |-> cytoscapeEdges(edges, {}, <<>>)]

\* The fields of the PeerGraph object.
thisGraph ==
    [adjacencyList |-> adjacencyList, reverseAdjacencyList |-> reverseAdjacencyList,
     edges |-> edges, nodes |-> nodes]

\* The value a metric or export operation returns.
returnValue(op, a, b) ==
    CASE op = "getOutDegree" -> getOutDegree(a)
      [] op = "getInDegree" -> getInDegree(a)
      [] op = "getDegree" -> getDegree(a)
      [] op = "getNeighbors" -> getNeighbors(a)
      [] op = "isBidirectional" -> isBidirectional(a, b)
      [] op = "calculateDensity" -> calculateDensity
      [] op = "countBidirectionalEdges" -> countBidirectionalEdges
      [] op = "calculateClusteringCoefficient" -> calculateClusteringCoefficient(a)
      [] op = "calculateAvgClusteringCoefficient" -> calculateAvgClusteringCoefficient
      [] op = "calculateBetweennessCentrality" -> calculateBetweennessCentrality
      [] op = "findConnectedComponents" -> findConnectedComponents
      [] op = "toCytoscapeFormat" -> toCytoscapeFormat

\* Mutant of call: a lookup of an address without forward entry creates an
\* empty entry for it.
callCreatingEntry(op, a, b) ==
    [graph |-> [thisGraph EXCEPT !.adjacencyList =
                   IF a = <<>> \/ a \in DOMAIN @ THEN @ ELSE @ @@ (a :> <<>>)],
     value |-> returnValue(op, a, b)]

\* One call of an operation: the fields after the call and the value
\* returned. The operations read the two maps, the edge list and the
\* registry; what they build (sets, arrays, maps, the sorted component
\* list, the sorted pair of an edge key) is local to the call.
call(op, a, b) == [graph |-> thisGraph, value |-> returnValue(op, a, b)]

\* All metric values of a graph, as an analysis reads them.
metrics ==
    [degrees |-> [v \in Range(MapKeys(nodes)) |->
                     <<getDegree(v), getInDegree(v), getOutDegree(v)>>],
     density |-> calculateDensity,
     clustering |-> [v \in Range(MapKeys(nodes)) |-> calculateClusteringCoefficient(v)],
     avgClustering |-> calculateAvgClusteringCoefficient,
     betweenness |-> calculateBetweennessCentrality,
     components |-> findConnectedComponents]

NoResult == [op |-> "none", a |-> <<>>, b |-> <<>>, value |-> 0]

(***************************************************************************)
(* Snapshots handed to the PeerGraph constructor without a crawl (as        *)
(* getDemoNodes does): the registry holds the first k addresses of a fixed  *)
(* order, which loses no case since the graph treats addresses as opaque    *)
(* keys and the edge lists range over every address of the universe.        *)
(***************************************************************************)
\* "i.i.i.i:i" for a digit i
GraphAddr(i) ==
    LET d == DecDigits[i + 1] IN <<d, ".", d, ".", d, ".", d, ":", d>>

SnapshotNode(a) ==
    [address |-> a, ip |-> split(a, ":")[1], port |-> parseInt(split(a, ":")[2])[1],
     isResponsive |-> TRUE, inboundPeers |-> <<>>, outboundPeers |-> <<>>]

Registry(k) == [i \in 1..k |-> SnapshotNode(GraphAddr(i))]

\* The addresses of the edge lists of family 1, and the registered addresses
\* of family 2.
ListUniverse == {GraphAddr(1), GraphAddr(2), GraphAddr(3)}

PairUniverse == <<GraphAddr(1), GraphAddr(2), GraphAddr(3), GraphAddr(4)>>

\* Family 1: any edge list of at most MaxGraphEdges edges, with any flags,
\* over the addresses of ListUniverse, of which the first k are registered.
ListEdges ==
    SeqsUpTo([source : ListUniverse, target : ListUniverse, bidirectional : BOOLEAN],
             MaxGraphEdges)

\* Family 2: every simple directed graph over the registered addresses of
\* PairUniverse: each unordered pair is absent (0), listed one way (1, 2) or
\* both ways (3).
Pairs == {<<i, j>> \in (1..Len(PairUniverse)) \X (1..Len(PairUniverse)) : i < j}

PairEdge(i, j) ==
    [source |-> PairUniverse[i], target |-> PairUniverse[j], bidirectional |-> FALSE]

RECURSIVE PairEdgesFrom(_, _, _)
PairEdgesFrom(choice, i, j) ==
    IF i >= Len(PairUniverse) THEN <<>>
    ELSE IF j > Len(PairUniverse) THEN PairEdgesFrom(choice, i + 1, i + 2)
    ELSE (CASE choice[<<i, j>>] = 0 -> <<>>
            [] choice[<<i, j>>] = 1 -> <<PairEdge(i, j)>>
            [] choice[<<i, j>>] = 2 -> <<PairEdge(j, i)>>
            [] OTHER -> <<PairEdge(i, j), PairEdge(j, i)>>)
         \o PairEdgesFrom(choice, i, j + 1)

\* Family 3: the cycle over the first n addresses, n from 4 to MaxCycle, each
\* of its edges listed one way (1, 2) or both ways (3).
CycleEdge(n, i, way) ==
    LET a == GraphAddr(i)
        b == GraphAddr((i % n) + 1)
        ab == [source |-> a, target |-> b, bidirectional |-> FALSE]
        ba == [source |-> b, target |-> a, bidirectional |-> FALSE]
    IN  IF way = 1 THEN <<ab>> ELSE IF way = 2 THEN <<ba>> ELSE <<ab, ba>>

RECURSIVE CycleEdgesFrom(_, _, _)
CycleEdgesFrom(n, choice, i) ==
    IF i > n THEN <<>>
    ELSE CycleEdge(n, i, choice[i]) \o CycleEdgesFrom(n, choice, i + 1)

Cycles ==
    UNION {{[nodes |-> Registry(n), edges |-> CycleEdgesFrom(n, choice, 1)] :
               choice \in [1..n -> 1..3]} : n \in 4..MaxCycle}

InitCrawlerDone ==
    /\ config = [seedNodes |-> <<>>, maxNodes |-> 0, concurrency |-> 0, retries |-> 0]
    /\ world = "snapshot"
    /\ visited = {}
    /\ queue = <<>>
    /\ responsiveCount = 0
    /\ failedCount = 0
    /\ worker = <<>>
    /\ crawlPc = "returned"
    /\ stats = NoStats
    /\ handed = <<>>
    /\ failedAll = {}
    /\ peersFailed = <<>>

InitNoGraph ==
    /\ graphPc = "none"
    /\ adjacencyList = <<>>
    /\ reverseAdjacencyList = <<>>
    /\ inputEdges = <<>>

InitNoCall ==
    /\ result = NoResult
    /\ callCount = 0
    /\ peer = <<>>

(***************************************************************************)
(* Actions of the analysis.                                                *)
(***************************************************************************)
\* new PeerGraph(nodes, edges)
Construct ==
    LET g == buildGraph(nodes, edges)
    IN  /\ graphPc = "none"
        /\ graphPc' = "queryable"
        /\ adjacencyList' = g.adjacencyList
        /\ reverseAdjacencyList' = g.reverseAdjacencyList
        /\ edges' = g.edges
        /\ inputEdges' = edges
        /\ UNCHANGED <<config, world, visited, queue, nodes, responsiveCount,
                       failedCount, worker, crawlPc, stats, handed, failedAll,
                       peersFailed,
                       callVars>>

\* ArweaveNodeAnalyzer.analyze: the graph is built from a crawl result that
\* holds at least one node.
Analyze ==
    /\ world # "snapshot"
    /\ crawlPc = "returned"
    /\ Len(nodes) # 0
    /\ Construct

NewPeerGraph ==
    /\ world = "snapshot"
    /\ Construct

\* The calls made on a graph: the operations with the arguments they take.
QueryAddrs == {GraphAddr(1), GraphAddr(2), AddrA}

Calls ==
    [op : {"calculateDensity", "countBidirectionalEdges",
           "calculateAvgClusteringCoefficient", "calculateBetweennessCentrality",
           "findConnectedComponents", "toCytoscapeFormat"},
     a : {<<>>}, b : {<<>>}]
    \cup [op : {"getOutDegree", "getInDegree", "getDegree", "getNeighbors",
                "calculateClusteringCoefficient"},
          a : QueryAddrs, b : {<<>>}]
    \cup [op : {"isBidirectional"}, a : QueryAddrs, b : QueryAddrs]

\* A metric or export operation is called on the graph.
Query ==
    /\ graphPc = "queryable"
    /\ callCount < MaxCalls
    /\ \E c \in Calls :
          LET r == call(c.op, c.a, c.b)
          IN  /\ adjacencyList' = r.graph.adjacencyList
              /\ reverseAdjacencyList' = r.graph.reverseAdjacencyList
              /\ edges' = r.graph.edges
              /\ nodes' = r.graph.nodes
              /\ result' = [op |-> c.op, a |-> c.a, b |-> c.b, value |-> r.value]
    /\ callCount' = callCount + 1
    /\ UNCHANGED <<config, world, visited, queue, responsiveCount, failedCount,
                   worker, crawlPc, stats, handed, failedAll, peersFailed,
                   graphPc, inputEdges,
                   peer>>

\* Every metric of the graph is read.
Measure ==
    /\ graphPc = "queryable"
    /\ result.op = "none"
    /\ result' = [op |-> "metrics", a |-> <<>>, b |-> <<>>, value |-> metrics]
    /\ UNCHANGED <<crawlerVars, graphPc, adjacencyList, reverseAdjacencyList,
                   inputEdges, callCount, peer>>

\* The orders a sequence can be put in.
Orders(seq) ==
    {[i \in 1..Len(seq) |-> seq[p[i]]] :
        p \in {q \in [1..Len(seq) -> 1..Len(seq)] :
                  \A i, j \in 1..Len(seq) : q[i] = q[j] => i = j}}

\* new PeerGraph(nodes, edges) once more, from the same nodes and the same
\* edges in another insertion order; the fields are those of the new
\* instance from here on.
Rebuild ==
    /\ graphPc = "queryable"
    /\ result.op = "metrics"
    /\ \E ns \in Orders(nodes), es \in Orders(inputEdges) :
          LET g == buildGraph(ns, es)
          IN  /\ nodes' = ns
              /\ inputEdges' = es
              /\ adjacencyList' = g.adjacencyList
              /\ reverseAdjacencyList' = g.reverseAdjacencyList
              /\ edges' = g.edges
    /\ graphPc' = "rebuilt"
    /\ UNCHANGED <<config, world, visited, queue, responsiveCount, failedCount,
                   worker, crawlPc, stats, handed, failedAll, peersFailed,
                   callVars>>

\* normalizeAddress is called on a string.
NormalizeAddress ==
    /\ result.op = "none"
    /\ result' = [op |-> "normalizeAddress", a |-> peer, b |-> <<>>,
                  value |-> normalizeAddress(peer)]
    /\ UNCHANGED <<crawlerVars, graphVars, callCount, peer>>

\* normalizeAddress is called on the address it returned.
NormalizeAgain ==
    /\ result.op = "normalizeAddress"
    /\ callCount = 0
    /\ result.value # null
    /\ result' = [op |-> "normalizeAddress", a |-> result.value, b |-> <<>>,
                  value |-> normalizeAddress(result.value)]
    /\ callCount' = 1
    /\ UNCHANGED <<crawlerVars, graphVars, peer>>

(***************************************************************************)
(* Specifications.                                                         *)
(***************************************************************************)
vars == <<crawlerVars, graphVars, callVars>>

Init ==
    /\ config \in Configs
    /\ world = "any"
    /\ InitCrawler
    /\ InitNoGraph
    /\ InitNoCall

Next ==
    \/ Crawl
    \/ \E w \in Workers : InfoResponse(w)
    \/ \E w \in Workers : BackoffElapsed(w)
    \/ \E w \in Workers : PeersResponse(w)
    \/ \E w \in Workers : Resume(w)
    \/ CrawlReturn
    \/ Analyze

\* Crawls of every configuration against a network that may answer anything.
Spec == Init /\ [][Next]_vars

InitE2E ==
    /\ config \in [seedNodes : {<<RawA>>}, maxNodes : 3..MaxE2EBudget,
                   concurrency : 1..MaxE2EWorkers, retries : 0..MaxRetries]
    /\ world = "e2e"
    /\ InitCrawler
    /\ InitNoGraph
    /\ InitNoCall

\* Crawls of the end-to-end scenario.
SpecE2E == InitE2E /\ [][Next]_vars

InitFanout ==
    /\ config \in [seedNodes : FanSeedLists, maxNodes : 1..MaxFanBudget,
                   concurrency : {1}, retries : 0..MaxRetries]
    /\ world = "fanout"
    /\ InitCrawler
    /\ InitNoGraph
    /\ InitNoCall

\* Crawls of one worker with seed lists and peer lists longer than three times
\* the budget.
SpecFanout == InitFanout /\ [][Next]_vars

\* A step of the crawl is pending: crawl() is about to be called, a worker
\* waits for a response, for a timer or for its continuation, or Promise.all
\* is about to resolve. It is the enabling condition of the crawl's actions.
StepPending ==
    \/ crawlPc = "idle"
    \/ /\ CrawlInProgress
       /\ \E w \in Workers :
             worker[w].pc \in {"fetchInfo", "backoff", "fetchPeers", "sleeping"}
    \/ /\ crawlPc = "running"
       /\ \A w \in Workers : worker[w].pc = "exited"

\* Every request eventually resolves, every timer eventually fires and a
\* settled promise's continuation eventually runs: weak fairness of the
\* crawl's steps, WF_vars(Next) with the enabling condition written out
\* (under [][Next]_vars every step that changes vars is a step of Next).
Fairness == []<>(~StepPending) \/ []<><<TRUE>>_vars

\* Crawls of every configuration, once crawl() is called, under fair scheduling.
SpecLive == Init /\ [][Next]_vars /\ Fairness

InitGraph ==
    /\ InitCrawlerDone
    /\ InitNoGraph
    /\ InitNoCall
    /\ \/ /\ nodes \in {Registry(k) : k \in 0..Cardinality(ListUniverse)}
          /\ edges \in ListEdges
       \/ /\ nodes = [i \in 1..Len(PairUniverse) |-> SnapshotNode(PairUniverse[i])]
          /\ edges \in {PairEdgesFrom(choice, 1, 2) : choice \in [Pairs -> 0..3]}
       \/ \E c \in Cycles : nodes = c.nodes /\ edges = c.edges

NextGraph == NewPeerGraph

\* Snapshots of the calls: at most MaxQueryEdges edges, with any flags, over
\* two addresses, of which the first k are registered.
QueryEdges ==
    SeqsUpTo([source : {GraphAddr(1), GraphAddr(2)},
              target : {GraphAddr(1), GraphAddr(2)}, bidirectional : BOOLEAN],
             MaxQueryEdges)

InitQuery ==
    /\ InitCrawlerDone
    /\ InitNoGraph
    /\ InitNoCall
    /\ nodes \in {Registry(k) : k \in 0..2}
    /\ edges \in QueryEdges

NextQuery == NewPeerGraph \/ Query

\* Calls on a graph after its construction.
SpecQuery == InitQuery /\ [][NextQuery]_vars

\* Snapshots built twice: at most MaxQueryEdges unflagged edges over the
\* addresses of ListUniverse, of which the first k are registered.
RebuildEdges ==
    SeqsUpTo([source : ListUniverse, target : ListUniverse, bidirectional : {FALSE}],
             MaxQueryEdges)

InitRebuild ==
    /\ InitCrawlerDone
    /\ InitNoGraph
    /\ InitNoCall
    /\ nodes \in {Registry(k) : k \in 0..Cardinality(ListUniverse)}
    /\ edges \in RebuildEdges

NextRebuild == NewPeerGraph \/ Measure \/ Rebuild

\* Two graphs from the same nodes and edges.
SpecRebuild == InitRebuild /\ [][NextRebuild]_vars

\* The strings handed to normalizeAddress: an optional protocol, a host of
\* up to MaxOctets parts joined by ".", and a suffix; bracketed forms; and
\* the strings the documentation names.
OctetTexts == {<<"1">>, <<"2", "5", "5">>, <<"2", "5", "6">>, <<"1", "x">>, <<"+", "1">>}

RECURSIVE Join(_, _)
Join(parts, sep) ==
    IF Len(parts) = 0 THEN <<>>
    ELSE IF Len(parts) = 1 THEN parts[1]
    ELSE parts[1] \o <<sep>> \o Join(Tail(parts), sep)

Hosts == {Join(parts, ".") : parts \in SeqsUpTo(OctetTexts, MaxOctets) \ {<<>>}}

Suffixes ==
    {<<>>, <<":">>, <<":", "1", "9", "8", "4">>, <<":", "9", "9", "9", "9">>,
     <<":", "-", "1">>, <<":", "8", "0", "x">>, <<":", "x">>, <<":", "1", ":", "2">>}

Protocols == {<<>>, HttpPrefix, HttpsPrefix}

\* "ftp" and "tcp"
Schemes == {<<"f", "t", "p">>, <<"t", "c", "p">>}

SchemeMark == <<":", "/", "/">>

Bracketed ==
    {<<"[", ":", ":", "1", "]">>, <<"[", ":", ":", "1">>, <<"[", "]">>,
     <<"[", ":", ":", "1", "]", "x">>, <<"1", "[", ":", ":", "1", "]">>}

Documented ==
    {<<"1", ".", "2", ".", "3", ".", "4">>,
     <<"1", ".", "2", ".", "3", ".", "4", ":", "9", "9", "9", "9">>,
     <<"3", "0", "0", ".", "1", ".", "1", ".", "1">>,
     <<"[", ":", ":", "1", "]", ":", "1", "9", "8", "4">>,
     HttpPrefix \o <<"5", ".", "6", ".", "7", ".", "8", ":", "1", "9", "8", "4">>,
     <<>>}

Inputs ==
    {pre \o h \o suf :
        pre \in Protocols \cup {S \o SchemeMark : S \in Schemes},
        h \in Hosts \cup Bracketed, suf \in Suffixes}
    \cup Documented

InitNormalize ==
    /\ InitCrawlerDone
    /\ nodes = <<>>
    /\ edges = <<>>
    /\ InitNoGraph
    /\ result = NoResult
    /\ callCount = 0
    /\ peer \in Inputs

NextNormalize == NormalizeAddress \/ NormalizeAgain

\* normalizeAddress over bounded strings.
SpecNormalize == InitNormalize /\ [][NextNormalize]_vars

\* Graph construction over bounded snapshots.
SpecGraph == InitGraph /\ [][NextGraph]_vars


(***************************************************************************)
(* Definitions the properties are stated with.                             *)
(***************************************************************************)
Keys == Range(MapKeys(nodes))

HasEdge(s, t) == \E i \in 1..Len(edges) : edges[i].source = s /\ edges[i].target = t

\* Every address the crawl or the snapshot mentions.
Mentioned ==
    Keys \cup {edges[i].source : i \in 1..Len(edges)}
         \cup {edges[i].target : i \in 1..Len(edges)}
         \cup DOMAIN adjacencyList \cup DOMAIN reverseAdjacencyList

RECURSIVE RSum(_, _)
RSum(f, S) ==
    IF S = {} THEN RInt(0)
    ELSE LET x == CHOOSE y \in S : TRUE IN RAdd(f[x], RSum(f, S \ {x}))

\* Betweenness by definition: over the undirected view of the edge list,
\* for each vertex v the sum over ordered pairs (s, t), s # v # t, of the
\* fraction of the shortest s-t paths that pass through v, times the
\* normalisation factor. Shortest paths are found by enumerating the simple
\* paths.
\* The simple paths of the undirected view, grown one vertex at a time.
RECURSIVE SimplePaths(_, _, _)
SimplePaths(adj, frontier, k) ==
    IF k = 0 \/ frontier = {} THEN frontier
    ELSE frontier \cup
         SimplePaths(adj,
                     {Append(p, x) : <<p, x>> \in
                         {px \in frontier \X Keys :
                             adj[<<px[1][Len(px[1])], px[2]>>] /\ ~Contains(px[1], px[2])}},
                     k - 1)

BruteBetweenness ==
    LET n == Len(nodes)
        adj == [st \in Keys \X Keys |->
                   st[1] # st[2] /\ (HasEdge(st[1], st[2]) \/ HasEdge(st[2], st[1]))]
        paths == SimplePaths(adj, {<<a>> : a \in Keys}, n)
        between == [st \in Keys \X Keys |->
                       {p \in paths : p[1] = st[1] /\ p[Len(p)] = st[2]}]
        shortest == [st \in Keys \X Keys |->
                       {p \in between[st] : \A q \in between[st] : Len(p) <= Len(q)}]
        through(st, v) == {p \in shortest[st] : \E i \in 2..(Len(p) - 1) : p[i] = v}
        norm == IF n > 2 THEN Rat(2, (n - 1) * (n - 2)) ELSE RInt(1)
    IN  [v \in Keys |->
            LET pairs == {st \in Keys \X Keys :
                             st[1] # v /\ st[2] # v /\ shortest[st] # {}}
                dep == [st \in pairs |->
                           Rat(Cardinality(through(st, v)), Cardinality(shortest[st]))]
            IN  RMul(norm, RSum(dep, pairs))]

(***************************************************************************)
(* Properties.                                                             *)
(***************************************************************************)
\* C1: the node registry never holds more than maxNodes nodes, in any state
\* of a crawl and in the result crawl() returns.
C1_RegistryWithinBudget == Len(nodes) <= config.maxNodes

\* C2: within one crawl no address is handed to processNode more than once,
\* however often it was enqueued and however the workers interleave.
C2_HandedAtMostOnce == \A a \in DOMAIN handed : handed[a] <= 1

\* A crawl of two workers whose seed list names one address twice has
\* returned, and the address was processed.
C2_Witness ==
    /\ crawlPc = "returned"
    /\ config.concurrency >= 2
    /\ Len(config.seedNodes) = 2
    /\ normalizeAddress(config.seedNodes[1]) = normalizeAddress(config.seedNodes[2])
    /\ normalizeAddress(config.seedNodes[1]) \in DOMAIN handed

\* C3: findConnectedComponents() is a partition of the node registry: the
\* components are pairwise disjoint, their union is exactly the set of
\* registry addresses, and a registry node without edges is a component of
\* size 1.
C3_ComponentsPartitionRegistry ==
    graphPc = "queryable" =>
        LET cs == findConnectedComponents
        IN  /\ \A i, j \in 1..Len(cs) : i # j => Range(cs[i]) \cap Range(cs[j]) = {}
            /\ \A i \in 1..Len(cs) : NoDup(cs[i])
            /\ UNION {Range(cs[i]) : i \in 1..Len(cs)} = Keys
            /\ \A a \in Keys :
                  (\A b \in Mentioned : ~HasEdge(a, b) /\ ~HasEdge(b, a))
                      => \E i \in 1..Len(cs) : cs[i] = <<a>>

\* C4: in the result of every crawl, both endpoints of every recorded edge
\* are keys of the node registry.
C4_EdgeEndpointsRegistered ==
    crawlPc = "returned" =>
        \A i \in 1..Len(edges) :
            MapHas(nodes, edges[i].source) /\ MapHas(nodes, edges[i].target)

\* C5: after construction, t is in forward(s) iff the edge list holds an
\* edge (s, t), and s is in reverse(t) iff the edge list holds an edge (s, t).
C5_AdjacencyIsEdgeList ==
    graphPc = "queryable" =>
        \A s, t \in Mentioned :
            /\ Contains(GetOrEmpty(adjacencyList, s), t) <=> HasEdge(s, t)
            /\ Contains(GetOrEmpty(reverseAdjacencyList, t), s) <=> HasEdge(s, t)

\* A graph was built from a list that repeats an edge and has an edge whose
\* target is not registered.
C5_Witness ==
    /\ graphPc = "queryable"
    /\ \E i, j \in 1..Len(edges) :
          i # j /\ edges[i].source = edges[j].source /\ edges[i].target = edges[j].target
    /\ \E i \in 1..Len(edges) : edges[i].target \notin Keys

\* C6: after construction an edge is flagged bidirectional iff the edge list
\* also holds an edge from its target to its source, whatever the flag was
\* in the input.
C6_FlagIffReverseEdge ==
    graphPc = "queryable" =>
        \A i \in 1..Len(edges) :
            edges[i].bidirectional <=> HasEdge(edges[i].target, edges[i].source)

\* A graph was built from a list in which an edge without a reverse came
\* flagged and an edge with a reverse came unflagged.
C6_Witness ==
    /\ graphPc = "queryable"
    /\ \E i \in 1..Len(edges) : inputEdges[i].bidirectional /\ ~edges[i].bidirectional
    /\ \E i \in 1..Len(edges) : ~inputEdges[i].bidirectional /\ edges[i].bidirectional

\* C7: after construction over an edge list of a crawl, the number of edges
\* flagged bidirectional is even.
C7_FlaggedCountEven == graphPc = "queryable" => FlaggedEdges % 2 = 0

\* C8: calculateDensity() is 0 for a registry of fewer than 2 nodes and lies
\* in [0, 1] for the edge list of every crawl otherwise.
C8_DensityInUnitInterval ==
    graphPc = "queryable" =>
        /\ Len(nodes) < 2 => calculateDensity = RInt(0)
        /\ RLe(RInt(0), calculateDensity) /\ RLe(calculateDensity, RInt(1))

\* C9: for every graph whose edge endpoints are all registry nodes, the
\* value calculateBetweennessCentrality() returns for each node is the
\* normalised sum, over ordered pairs (s, t), of the fraction of shortest
\* s-t paths through it.
C9_BrandesIsBruteForce ==
    (graphPc = "queryable" /\ \A i \in 1..Len(edges) :
                                 edges[i].source \in Keys /\ edges[i].target \in Keys)
        => calculateBetweennessCentrality = BruteBetweenness

\* A graph of four nodes was built in which two nodes are joined by two
\* shortest paths, so that a node carries half of a pair's paths.
C9_Witness ==
    /\ graphPc = "queryable"
    /\ Len(nodes) = 4
    /\ \A i \in 1..Len(edges) : edges[i].source \in Keys /\ edges[i].target \in Keys
    /\ \E v \in Keys : calculateBetweennessCentrality[v] = Rat(1, 3)

\* C10: in the end-to-end scenario the crawl yields the registry {A, B, C}
\* and the edges A->B, A->C, B->A, B->C; the graph flags exactly A->B and
\* B->A, every node has degree 2, C has out-degree 0, and there is one
\* component, of size 3.
C10_EndToEnd ==
    /\ crawlPc = "returned" =>
          /\ Len(nodes) = 3
          /\ Keys = {AddrA, AddrB, AddrC}
          /\ [i \in 1..Len(edges) |-> <<edges[i].source, edges[i].target>>]
                = << <<AddrA, AddrB>>, <<AddrA, AddrC>>,
                     <<AddrB, AddrA>>, <<AddrB, AddrC>> >>
    /\ graphPc = "queryable" =>
          /\ \A i \in 1..Len(edges) :
                edges[i].bidirectional <=> edges[i].target \in {AddrA, AddrB}
          /\ \A a \in Keys : getDegree(a) = 2
          /\ getOutDegree(AddrC) = 0
          /\ Len(findConnectedComponents) = 1
          /\ Len(findConnectedComponents[1]) = 3

\* The scenario was crawled by more than one worker, with a retry for C, and
\* the graph was built.
C10_Witness ==
    /\ graphPc = "queryable"
    /\ config.concurrency >= 2
    /\ config.retries >= 1

\* C11: an address whose /info request failed on every attempt is in the
\* registry when crawl() returns, with isResponsive = false, and is the
\* source of no edge.
C11_FailedNodeRecorded ==
    crawlPc = "returned" =>
        \A a \in failedAll :
            /\ MapHas(nodes, a)
            /\ ~MapGet(nodes, a).isResponsive
            /\ \A i \in 1..Len(edges) : edges[i].source # a

\* A crawl with a retry has returned in which a node failed every attempt
\* and another node reported it as a peer.
C11_Witness ==
    /\ crawlPc = "returned"
    /\ config.retries >= 1
    /\ \E a \in failedAll : \E i \in 1..Len(edges) : edges[i].target = a

\* C12: no outcome of a request makes crawl() fail: fetchNodeInfo and
\* fetchPeers turn a timeout, a connection error, a status other than 200, an
\* empty or unparsable body and a non-array peer list into null and [], no
\* worker and no crawl ends rejected, the step that handles a response leaves
\* the other workers as they are, and crawl() returns.
C12_FetchFailuresContained ==
    /\ [](/\ \A k \in FailureKinds :
              /\ fetchNodeInfo(k).settled = "resolved"
              /\ fetchNodeInfo(k).value = null
          /\ \A k \in FailureKinds \cup {"notArray"} :
              /\ fetchPeers([kind |-> k, body |-> <<>>]).settled = "resolved"
              /\ fetchPeers([kind |-> k, body |-> <<>>]).value = <<>>
          /\ crawlPc # "failed"
          /\ \A w \in Workers : worker[w].pc # "rejected")
    /\ [][\A w \in Workers :
            (worker[w].pc \in {"fetchInfo", "fetchPeers"} /\ worker'[w] # worker[w])
                => \A v \in Workers \ {w} : worker'[v] = worker[v]]_vars
    /\ <>(crawlPc = "returned")

\* A crawl of two workers has returned in which a node never answered /info
\* and a node that answered /info yielded no peers.
C12_Witness ==
    /\ crawlPc = "returned"
    /\ config.concurrency >= 2
    /\ failedAll # {}
    /\ \E i \in 1..Len(nodes) : nodes[i].isResponsive /\ nodes[i].outboundPeers = <<>>

\* C13: when no seed normalizes to an address, crawl() fails at its start
\* instead of returning a result.
C13_NoUsableSeedIsFatal ==
    (/\ crawlPc # "idle"
     /\ \A i \in 1..Len(config.seedNodes) : normalizeAddress(config.seedNodes[i]) = null)
        => crawlPc = "failed"

\* C14: when every request resolves and every pending step is eventually
\* taken, every worker eventually exits and crawl() eventually returns, for
\* every budget, concurrency and retry count.
C14_CrawlTerminates ==
    <>(crawlPc = "returned" /\ \A w \in Workers : worker[w].pc = "exited")

\* A crawl of two workers with a retry has returned after a node failed
\* every attempt and two nodes were registered.
C14_Witness ==
    /\ crawlPc = "returned"
    /\ config.concurrency >= 2
    /\ config.retries >= 1
    /\ failedAll # {}
    /\ Len(nodes) >= 2
    /\ \A w \in Workers : worker[w].pc = "exited"

\* C15: crawl() has returned only when every worker has exited, at that
\* moment the frontier is empty or the registry holds at least maxNodes
\* nodes, and afterwards no step changes the visited set, the frontier, the
\* registry, the workers, or the endpoints of the edge list.
C15_ReturnsAfterWorkers ==
    /\ [](crawlPc = "returned" =>
            /\ \A w \in Workers : worker[w].pc = "exited"
            /\ queue = <<>> \/ Len(nodes) >= config.maxNodes)
    /\ [][crawlPc = "returned" =>
            /\ UNCHANGED <<visited, queue, nodes, worker>>
            /\ Len(edges') = Len(edges)
            /\ \A i \in 1..Len(edges) :
                  /\ edges'[i].source = edges[i].source
                  /\ edges'[i].target = edges[i].target]_vars

\* A crawl of two workers has returned at its budget with addresses left in
\* the frontier, and the graph was built from its result.
C15_Witness ==
    /\ graphPc = "queryable"
    /\ config.concurrency >= 2
    /\ queue # <<>>
    /\ Len(nodes) >= config.maxNodes

\* C16: when crawl() returns, the visited set and the node registry have
\* the same size.
C16_VisitedIsRegistry ==
    crawlPc = "returned" => Cardinality(visited) = Len(nodes)

\* C17: in every state of a crawl the frontier queue holds at most
\* 3 x maxNodes entries, whatever the number of seeds and the length of the
\* peer lists.
C17_QueueWithinCap == Len(queue) <= config.maxNodes * 3

\* The reported peers that normalize, normalized, in the order reported.
RECURSIVE NormalizedPeers(_)
NormalizedPeers(peers) ==
    IF peers = <<>> THEN <<>>
    ELSE LET normalizedPeer == normalizeAddress(Head(peers))
         IN  (IF normalizedPeer = null THEN <<>> ELSE <<normalizedPeer>>)
             \o NormalizedPeers(Tail(peers))

\* The targets of the edges recorded from an address, in the order recorded.
RECURSIVE TargetsFrom(_, _)
TargetsFrom(es, address) ==
    IF es = <<>> THEN <<>>
    ELSE (IF Head(es).source = address THEN <<Head(es).target>> ELSE <<>>)
         \o TargetsFrom(Tail(es), address)

\* C18: for every registered node the edges recorded from it are, in order,
\* one edge to each peer of its reported list that normalizes, whether or
\* not that peer was visited, queued or refused by the budget or the queue
\* cap; peers that do not normalize add no edge, and no edge has another
\* source.
C18_EdgePerNormalizedPeer ==
    /\ \A i \in 1..Len(nodes) :
          TargetsFrom(edges, nodes[i].address) = NormalizedPeers(nodes[i].outboundPeers)
    /\ \A i \in 1..Len(edges) : MapHas(nodes, edges[i].source)

\* With a budget of one and a queue at its cap, A reported B and a
\* non-address: the edge A -> B is recorded, B is neither visited nor queued.
C18_Witness ==
    /\ config.maxNodes = 1
    /\ MapHas(nodes, AddrA)
    /\ Contains(MapGet(nodes, AddrA).outboundPeers, Junk)
    /\ HasEdge(AddrA, AddrB)
    /\ AddrB \notin visited
    /\ ~Contains(queue, AddrB)
    /\ Len(queue) >= config.maxNodes * 3

\* forward(v) and reverse(v) as the edge list defines them.
Forward(v) == {t \in Mentioned : HasEdge(v, t)}

Reverse(v) == {t \in Mentioned : HasEdge(t, v)}

\* An address no registry and no edge list of the snapshots mentions.
Unknown == AddrA

\* C19: for every address v, getOutDegree(v) = |forward(v)|,
\* getInDegree(v) = |reverse(v)|, getDegree(v) = |forward(v) \cup reverse(v)|
\* = |getNeighbors(v)| <= getOutDegree(v) + getInDegree(v), and an address
\* unknown to the graph has degree 0.
C19_DegreesCountPeers ==
    graphPc = "queryable" =>
        /\ \A v \in Mentioned \cup {Unknown} :
              /\ getOutDegree(v) = Cardinality(Forward(v))
              /\ getInDegree(v) = Cardinality(Reverse(v))
              /\ getDegree(v) = Cardinality(Forward(v) \cup Reverse(v))
              /\ getDegree(v) = Len(getNeighbors(v))
              /\ Range(getNeighbors(v)) = Forward(v) \cup Reverse(v)
              /\ getDegree(v) <= getOutDegree(v) + getInDegree(v)
        /\ Unknown \notin Mentioned
        /\ getDegree(Unknown) = 0 /\ getOutDegree(Unknown) = 0 /\ getInDegree(Unknown) = 0

\* A graph was built in which a node and one of its peers list each other,
\* and the edge list names that peer twice.
C19_Witness ==
    /\ graphPc = "queryable"
    /\ \E v, t \in Mentioned :
          /\ v # t
          /\ HasEdge(v, t) /\ HasEdge(t, v)
          /\ getDegree(v) < getOutDegree(v) + getInDegree(v)
          /\ \E i, j \in 1..Len(edges) :
                i # j /\ edges[i].source = v /\ edges[j].source = v
                      /\ edges[i].target = t /\ edges[j].target = t

\* C20: calculateClusteringCoefficient(v) is 0 when v has fewer than 2
\* neighbors; otherwise it is the number of unordered pairs of neighbors
\* joined by an edge in either direction, divided by k(k-1)/2, and lies in
\* [0, 1], also with self-loops and repeated edges in the edge list.
C20_ClusteringCoefficient ==
    graphPc = "queryable" =>
        \A v \in Mentioned \cup {Unknown} :
            LET neighbors == Forward(v) \cup Reverse(v)
                k == Cardinality(neighbors)
                joined == {ab \in SUBSET neighbors :
                              /\ Cardinality(ab) = 2
                              /\ \E a, b \in ab : a # b /\ HasEdge(a, b)}
                cc == calculateClusteringCoefficient(v)
            IN  /\ k < 2 => cc = RInt(0)
                /\ k >= 2 => cc = Rat(Cardinality(joined), (k * (k - 1)) \div 2)
                /\ RLe(RInt(0), cc) /\ RLe(cc, RInt(1))

\* A graph was built in which a node lists itself and two other nodes that
\* are not joined: two of its three neighbor pairs are joined.
C20_Witness ==
    /\ graphPc = "queryable"
    /\ \E v \in Mentioned :
          /\ HasEdge(v, v)
          /\ calculateClusteringCoefficient(v) = Rat(2, 3)

\* C21: calculateAvgClusteringCoefficient() is the sum of the clustering
\* coefficients of all registry nodes divided by the number of registry
\* nodes, nodes of fewer than 2 neighbors counting with 0, and is 0 for an
\* empty registry.
C21_AvgClusteringIsMean ==
    graphPc = "queryable" =>
        calculateAvgClusteringCoefficient =
            IF Len(nodes) = 0 THEN RInt(0)
            ELSE RDiv(RSum([v \in Keys |-> calculateClusteringCoefficient(v)], Keys),
                      RInt(Len(nodes)))

\* A graph of four nodes was built: a triangle and a node without edges.
C21_Witness ==
    /\ graphPc = "queryable"
    /\ Len(nodes) = 4
    /\ \E v \in Keys : Forward(v) \cup Reverse(v) = {}
    /\ calculateAvgClusteringCoefficient = Rat(3, 4)

\* The undirected view is one cycle through all registry nodes, at least 4.
SymmetricCycle ==
    /\ Len(nodes) >= 4
    /\ \A i \in 1..Len(edges) :
          /\ edges[i].source \in Keys /\ edges[i].target \in Keys
          /\ edges[i].source # edges[i].target
    /\ \A v \in Keys : Cardinality(Forward(v) \cup Reverse(v)) = 2
    /\ Len(findConnectedComponents) = 1

\* C22: calculateBetweennessCentrality() is >= 0 for every registry node of
\* every graph, and equal for all nodes of a cycle of 4 or more nodes.
C22_BetweennessNonNegative ==
    graphPc = "queryable" =>
        LET bc == calculateBetweennessCentrality
        IN  /\ \A v \in Keys : RLe(RInt(0), bc[v])
            /\ SymmetricCycle => \A u, v \in Keys : bc[u] = bc[v]

\* A graph was built over a cycle of five nodes with edges listed one way
\* and edges listed both ways.
C22_Witness ==
    /\ graphPc = "queryable"
    /\ SymmetricCycle
    /\ Len(nodes) = 5
    /\ \E i, j \in 1..Len(edges) : edges[i].bidirectional /\ ~edges[j].bidirectional

\* C23: for every graph of more than 2 nodes the betweenness of every node
\* is at most 1.
C23_BetweennessAtMostOne ==
    (graphPc = "queryable" /\ Len(nodes) > 2) =>
        \A v \in Keys : RLe(calculateBetweennessCentrality[v], RInt(1))

\* C24: no edge with source = target is recorded by the crawler, and no
\* address is in its own forward or reverse set.
C24_NoSelfLoop ==
    /\ \A i \in 1..Len(edges) : edges[i].source # edges[i].target
    /\ \A a \in DOMAIN adjacencyList : ~Contains(adjacencyList[a], a)
    /\ \A a \in DOMAIN reverseAdjacencyList : ~Contains(reverseAdjacencyList[a], a)

\* C25: on the graph of an empty registry and an empty edge list the
\* density and the average clustering coefficient are 0, the betweenness map
\* and the component list are empty, and every degree is 0.
C25_EmptyGraphMetrics ==
    (graphPc = "queryable" /\ nodes = <<>> /\ edges = <<>>) =>
        /\ calculateDensity = RInt(0)
        /\ calculateAvgClusteringCoefficient = RInt(0)
        /\ DOMAIN calculateBetweennessCentrality = {}
        /\ findConnectedComponents = <<>>
        /\ \A v \in ListUniverse \cup {Unknown} :
              /\ getDegree(v) = 0 /\ getInDegree(v) = 0 /\ getOutDegree(v) = 0
              /\ getNeighbors(v) = <<>>
              /\ calculateClusteringCoefficient(v) = RInt(0)

\* The graph of the empty snapshot was built.
C25_Witness == graphPc = "queryable" /\ nodes = <<>> /\ edges = <<>>

\* C26: findConnectedComponents() lists its components in non-increasing
\* order of size.
C26_ComponentsLongestFirst ==
    graphPc = "queryable" =>
        LET cs == findConnectedComponents
        IN  \A i \in 1..(Len(cs) - 1) : Len(cs[i]) >= Len(cs[i + 1])

\* A graph was built whose first registry node lies in a component smaller
\* than a later one, so that the order found is not the order returned.
C26_Witness ==
    /\ graphPc = "queryable"
    /\ Len(findConnectedComponents) >= 2
    /\ findConnectedComponents[1][1] # nodes[1].address
    /\ Len(findConnectedComponents[1]) > Len(findConnectedComponents[2])

\* The graph is as the constructor left it.
AsConstructed ==
    LET g == buildGraph(nodes, inputEdges)
    IN  /\ adjacencyList = g.adjacencyList
        /\ reverseAdjacencyList = g.reverseAdjacencyList
        /\ edges = g.edges

C28_SameMetricsInAnyOrder ==
    graphPc = "rebuilt" => metrics = result.value

\* The value of a string of decimal digits.
RECURSIVE DecimalValue(_, _)
DecimalValue(s, acc) ==
    IF s = <<>> THEN acc
    ELSE DecimalValue(Tail(s), acc * 10 + (IndexOf(DecDigits, Head(s)) - 1))

\* Exactly four decimal octets, each in 0..255.
FourOctets(h) ==
    LET parts == split(h, ".")
    IN  /\ Len(parts) = 4
        /\ \A i \in 1..4 :
              /\ parts[i] # <<>>
              /\ IsDigits(parts[i])
              /\ DecimalValue(parts[i], 0) <= 255

\* "[" ip "]" with a non-empty ip free of brackets.
BracketedHost(h) ==
    /\ Len(h) >= 3
    /\ h[1] = "[" /\ h[Len(h)] = "]"
    /\ \A i \in 2..(Len(h) - 1) : h[i] \notin {"[", "]"}

DefaultPortText == <<":", "1", "9", "8", "4">>

\* The string a call of normalizeAddress returned for the input s.
Normalized(s) == result.op = "normalizeAddress" /\ result.a = s

\* C29: normalizeAddress maps "1.2.3.4" to "1.2.3.4:1984", leaves
\* "1.2.3.4:9999" and "[::1]:1984" as they are, maps "http://5.6.7.8:1984" to
\* "5.6.7.8:1984" and "300.1.1.1" to null; an IPv4 host or a bracketed IPv6
\* host without a port, with or without a protocol, gets the port 1984.
C29_NormalizeExamples ==
    result.op = "normalizeAddress" =>
        /\ Normalized(<<"1", ".", "2", ".", "3", ".", "4">>) =>
              result.value = <<"1", ".", "2", ".", "3", ".", "4", ":", "1", "9", "8", "4">>
        /\ Normalized(<<"1", ".", "2", ".", "3", ".", "4", ":", "9", "9", "9", "9">>) =>
              result.value = result.a
        /\ Normalized(<<"[", ":", ":", "1", "]", ":", "1", "9", "8", "4">>) =>
              result.value = result.a
        /\ Normalized(HttpPrefix \o <<"5", ".", "6", ".", "7", ".", "8", ":", "1", "9", "8", "4">>) =>
              result.value = <<"5", ".", "6", ".", "7", ".", "8", ":", "1", "9", "8", "4">>
        /\ Normalized(<<"3", "0", "0", ".", "1", ".", "1", ".", "1">>) =>
              result.value = null
        /\ \A pre \in Protocols :
              StartsWith(result.a, pre) =>
                  LET h == Drop(result.a, Len(pre))
                  IN  (FourOctets(h) \/ BracketedHost(h)) =>
                          result.value = h \o DefaultPortText

\* normalizeAddress was called on "https://[::1]" and returned "[::1]:1984".
C29_Witness ==
    /\ Normalized(HttpsPrefix \o <<"[", ":", ":", "1", "]">>)
    /\ result.value = <<"[", ":", ":", "1", "]", ":", "1", "9", "8", "4">>

\* C30: for an input without "[", normalizeAddress returns an address only
\* if the host is exactly four decimal octets in 0..255 and what follows a
\* ":" is a non-empty string of digits; at most one ":" is accepted.
C30_StrictIPv4 ==
    (result.op = "normalizeAddress" /\ ~Contains(result.a, "[")
        /\ result.value # null) =>
        LET parts == split(StripProtocol(result.a), ":")
        IN  /\ Len(parts) <= 2
            /\ FourOctets(parts[1])
            /\ Len(parts) = 2 => (parts[2] # <<>> /\ IsDigits(parts[2]))

\* C31: for every scheme name S and every string x,
\* normalizeAddress(S + "://" + x) = normalizeAddress(x).
C31_AnySchemeStripped ==
    result.op = "normalizeAddress" =>
        \A S \in Schemes \cup {<<"h", "t", "t", "p">>, <<"h", "t", "t", "p", "s">>} :
            StartsWith(result.a, S \o SchemeMark) =>
                result.value = normalizeAddress(Drop(result.a, Len(S \o SchemeMark)))

\* C40: for every input x with normalizeAddress(x) = a # null,
\* normalizeAddress(a) = a.
C40_NormalizeIdempotent ==
    (result.op = "normalizeAddress" /\ callCount = 1) => result.value = result.a

\* normalizeAddress was called a second time, on an address it had made
\* from an input with a protocol and without a port, and on one it had
\* returned for a bracketed input.
C40_Witness ==
    /\ result.op = "normalizeAddress"
    /\ callCount = 1
    /\ peer # result.a
    /\ StartsWith(peer, HttpPrefix)
    /\ Contains(peer, "[")
    /\ result.value = result.a

\* A request of worker w is in flight.
InFlight(w) == worker[w].pc \in {"fetchInfo", "fetchPeers"}

\* C32: while the frontier holds an unvisited address or a request is in
\* flight, and the registry is below maxNodes, no worker has exited.
C32_AllWorkersRunning ==
    (/\ crawlPc = "running"
     /\ Len(nodes) < config.maxNodes
     /\ \/ \E i \in 1..Len(queue) : queue[i] \notin visited
        \/ \E w \in Workers : InFlight(w)) =>
        \A w \in Workers : worker[w].pc # "exited"

\* C33: a node whose /peers request failed is entered into the registry
\* only after retries + 1 failed /peers requests.
C33_PeerFetchRetried ==
    \A a \in DOMAIN peersFailed :
        MapHas(nodes, a) => peersFailed[a] = config.retries + 1

\* What a step does to worker w whose /info request is answered: a wait of
\* BackoffBase * (attempt + 1) when attempts are left, the /peers request
\* and the responsive counter on success, and after the last failure no wait
\* but the failed counter and an unresponsive registry entry.
InfoAnswered(w) ==
    LET me == worker[w]
    IN  \/ /\ worker'[w].pc = "backoff"
           /\ me.attempt < config.retries
           /\ worker'[w].delay = BackoffBase * (me.attempt + 1)
           /\ worker'[w].attempt = me.attempt
           /\ UNCHANGED <<responsiveCount, failedCount, nodes>>
        \/ /\ worker'[w].pc = "fetchPeers"
           /\ responsiveCount' = responsiveCount + 1
           /\ me.address \notin failedAll'
           /\ UNCHANGED <<failedCount, nodes>>
        \/ /\ worker'[w].pc = "sleeping"
           /\ me.attempt = config.retries
           /\ failedCount' = failedCount + 1
           /\ UNCHANGED responsiveCount
           /\ MapHas(nodes', me.address)
           /\ ~MapGet(nodes', me.address).isResponsive

C35_OvershootWithinWorkers ==
    /\ [](Len(nodes) <= config.maxNodes + config.concurrency - 1)
    /\ [][handed' # handed => Len(nodes) < config.maxNodes]_vars

\* A crawl of two workers or more has returned a registry of
\* maxNodes + concurrency - 1 nodes.
C35_Witness ==
    /\ crawlPc = "returned"
    /\ config.concurrency >= 2
    /\ Len(nodes) = config.maxNodes + config.concurrency - 1

\* C36: at most concurrency requests are in flight, one per worker, and at
\* most concurrency addresses are visited without being in the registry.
C36_InFlightWithinWorkers ==
    /\ Cardinality({w \in Workers : InFlight(w)}) <= config.concurrency
    /\ Cardinality(visited \ Keys) <= config.concurrency

\* C37: when crawl() has returned fewer than maxNodes nodes, the target of
\* every recorded edge is in the registry.
C37_DiscoveryComplete ==
    (crawlPc = "returned" /\ Len(nodes) < config.maxNodes) =>
        \A i \in 1..Len(edges) : MapHas(nodes, edges[i].target)

\* C38: when crawl() has returned, the inboundPeers of every registry node
\* are the sources of the recorded edges toward it.
C38_InboundPeersAreSources ==
    crawlPc = "returned" =>
        \A i \in 1..Len(nodes) :
            Range(nodes[i].inboundPeers)
                = {edges[j].source : j \in {k \in 1..Len(edges) :
                                               edges[k].target = nodes[i].address}}

\* C39: the stats crawl() returns are the registry size, the numbers of
\* responsive and of unresponsive registry nodes, which add up to the
\* registry size, and the length of the edge list.
C39_StatsConsistent ==
    crawlPc = "returned" =>
        LET up == {i \in 1..Len(nodes) : nodes[i].isResponsive}
            down == {i \in 1..Len(nodes) : ~nodes[i].isResponsive}
        IN  /\ stats.totalDiscovered = Len(nodes)
            /\ stats.totalResponsive = Cardinality(up)
            /\ stats.totalFailed = Cardinality(down)
            /\ stats.totalResponsive + stats.totalFailed = stats.totalDiscovered
            /\ stats.totalEdges = Len(edges)

\* crawl() has returned a responsive node, an unresponsive node and edges,
\* and has visited an address that is not in the registry.
C39_Witness ==
    /\ crawlPc = "returned"
    /\ \E i, j \in 1..Len(nodes) : nodes[i].isResponsive /\ ~nodes[j].isResponsive
    /\ Len(edges) > 0
    /\ visited \ Keys # {}

=============================================================================
